---------------------------- MODULE Spec2Model ----------------------------
(***************************************************************************)
(* Model of examples/Algorithm_Choice.ipynb: the two recurrences prec and  *)
(* qrec for 1/3^n and the fractional-error computation that compares them  *)
(* with the directly computed reference 1/3.**n.                           *)
(*                                                                         *)
(* The notebook computes in NumPy float64 (IEEE 754 binary64, round to     *)
(* nearest, ties to even).  The model reproduces that arithmetic bit for   *)
(* bit on 53-bit significands held as multi-limb naturals, because TLC's   *)
(* own integers are 32 bits wide.  The markdown cells of the notebook      *)
(* define the same recurrences over the reals ("mathematically these       *)
(* exactly calculate 1/3^n"); those are modelled with exact rationals.     *)
(***************************************************************************)
EXTENDS Integers, Sequences, FiniteSets, TLC

(***************************************************************************)
(* Multi-limb naturals: a little-endian sequence of limbs in 0..Base-1     *)
(* whose last (most significant) limb is not 0; zero is << >>.             *)
(***************************************************************************)
LimbBits == 15

Base == 2^LimbBits

RECURSIVE BigTrim(_)
BigTrim(a) ==
    IF a = << >> THEN << >>
    ELSE IF a[Len(a)] = 0 THEN BigTrim(SubSeq(a, 1, Len(a) - 1))
    ELSE a

RECURSIVE BigFromNat(_)
BigFromNat(n) ==
    IF n = 0 THEN << >> ELSE <<n % Base>> \o BigFromNat(n \div Base)

RECURSIVE BigAddC(_, _, _)
BigAddC(a, b, c) ==
    IF a = << >> /\ b = << >> THEN (IF c = 0 THEN << >> ELSE <<c>>)
    ELSE LET x == IF a = << >> THEN 0 ELSE Head(a)
             y == IF b = << >> THEN 0 ELSE Head(b)
             s == x + y + c
             ta == IF a = << >> THEN << >> ELSE Tail(a)
             tb == IF b = << >> THEN << >> ELSE Tail(b)
         IN  <<s % Base>> \o BigAddC(ta, tb, s \div Base)

BigAdd(a, b) == BigAddC(a, b, 0)

\* a - b - c for a >= b + c (c is the borrow, 0 or 1); untrimmed
RECURSIVE BigSubC(_, _, _)
BigSubC(a, b, c) ==
    IF a = << >> THEN << >>
    ELSE LET y == IF b = << >> THEN 0 ELSE Head(b)
             d == Head(a) - y - c
             tb == IF b = << >> THEN << >> ELSE Tail(b)
         IN  IF d < 0 THEN <<d + Base>> \o BigSubC(Tail(a), tb, 1)
             ELSE <<d>> \o BigSubC(Tail(a), tb, 0)

BigSub(a, b) == BigTrim(BigSubC(a, b, 0))

\* -1, 0, 1 as a < b, a = b, a > b
RECURSIVE BigCmpAt(_, _, _)
BigCmpAt(a, b, i) ==
    IF i = 0 THEN 0
    ELSE IF a[i] < b[i] THEN -1
    ELSE IF a[i] > b[i] THEN 1
    ELSE BigCmpAt(a, b, i - 1)

BigCmp(a, b) ==
    IF Len(a) < Len(b) THEN -1
    ELSE IF Len(a) > Len(b) THEN 1
    ELSE BigCmpAt(a, b, Len(a))

\* a * d + c for a limb-sized d and carry c; untrimmed only when a*d = 0
RECURSIVE BigMulSmallC(_, _, _)
BigMulSmallC(a, d, c) ==
    IF a = << >> THEN (IF c = 0 THEN << >> ELSE <<c>>)
    ELSE LET s == Head(a) * d + c
         IN  <<s % Base>> \o BigMulSmallC(Tail(a), d, s \div Base)

BigMulSmall(a, d) == BigTrim(BigMulSmallC(a, d, 0))

RECURSIVE BigMul(_, _)
BigMul(a, b) ==
    IF a = << >> \/ b = << >> THEN << >>
    ELSE LET rest == BigMul(a, Tail(b))
             shifted == IF rest = << >> THEN << >> ELSE <<0>> \o rest
         IN  BigAdd(BigMulSmall(a, Head(b)), shifted)

RECURSIVE NatBitLen(_)
NatBitLen(n) == IF n = 0 THEN 0 ELSE 1 + NatBitLen(n \div 2)

BigBitLen(a) ==
    IF a = << >> THEN 0 ELSE LimbBits * (Len(a) - 1) + NatBitLen(a[Len(a)])

BigIsOdd(a) == a # << >> /\ Head(a) % 2 = 1

\* a * 2^n
BigShl(a, n) ==
    IF a = << >> THEN << >>
    ELSE [i \in 1..(n \div LimbBits) |-> 0] \o BigMulSmall(a, 2^(n % LimbBits))

\* floor(a / 2^n)
BigShr(a, n) ==
    LET q == n \div LimbBits
        r == n % LimbBits
        d == IF q >= Len(a) THEN << >> ELSE SubSeq(a, q + 1, Len(a))
        up(i) == IF i < Len(d) THEN d[i + 1] % 2^r ELSE 0
    IN  BigTrim([i \in 1..Len(d) |->
                    (d[i] \div 2^r) + up(i) * 2^(LimbBits - r)])

\* limb i of a, 0 beyond its length
BigLimb(a, i) == IF i <= Len(a) THEN a[i] ELSE 0

\* floor(cur / b) for cur < b * Base and a b whose top limb is at least
\* Base / 2: the two top limbs of cur over the top limb of b overestimate
\* the digit by at most 2
BigDigit(cur, b) ==
    LET n == Len(b)
        est == (BigLimb(cur, n + 1) * Base + BigLimb(cur, n)) \div b[n]
        d0 == IF est > Base - 1 THEN Base - 1 ELSE est
    IN  IF BigCmp(BigMulSmall(b, d0), cur) <= 0 THEN d0
        ELSE IF BigCmp(BigMulSmall(b, d0 - 1), cur) <= 0 THEN d0 - 1
        ELSE d0 - 2

\* long division of a by b, for a b whose top limb is at least Base / 2:
\* limbs i, i-1, ..., 1 of a are still to be brought down, q is the
\* quotient and r the remainder of the limbs above them
RECURSIVE BigDivModAt(_, _, _, _, _)
BigDivModAt(a, b, i, q, r) ==
    IF i = 0 THEN <<q, r>>
    ELSE LET cur == BigTrim(<<a[i]>> \o r)
             d == BigDigit(cur, b)
         IN  IF d = 0
             THEN BigDivModAt(a, b, i - 1, BigTrim(<<0>> \o q), cur)
             ELSE BigDivModAt(a, b, i - 1, <<d>> \o q,
                              BigSub(cur, BigMulSmall(b, d)))

\* <<floor(a / b), a mod b>> for b # 0: both are scaled so that the top
\* limb of b is full, which leaves the quotient unchanged
BigDivMod(a, b) ==
    LET sh == LimbBits - NatBitLen(b[Len(b)])
        as == BigShl(a, sh)
        qr == BigDivModAt(as, BigShl(b, sh), Len(as), << >>, << >>)
    IN  <<qr[1], BigShr(qr[2], sh)>>

(***************************************************************************)
(* IEEE 754 binary64 values: [s, m, e] stands for (-1)^s * m * 2^e with    *)
(* 2^52 <= m < 2^53, or m = << >> for zero.  Every operation computes the  *)
(* exact result and rounds it once to nearest, ties to even.  The values   *)
(* of the notebook stay far inside the normal exponent range, so overflow, *)
(* underflow, subnormals, infinities and NaN do not arise.                 *)
(***************************************************************************)
MantBits == 53

FZero == [s |-> 0, m |-> << >>, e |-> 0]

\* (-1)^s * M * 2^E rounded to MantBits significant bits
FRound(s, M, E) ==
    IF M = << >> THEN FZero
    ELSE LET L == BigBitLen(M)
         IN  IF L <= MantBits
             THEN [s |-> s, m |-> BigShl(M, MantBits - L),
                   e |-> E - (MantBits - L)]
             ELSE LET sh == L - MantBits
                      q == BigShr(M, sh)
                      rem == BigSub(M, BigShl(q, sh))
                      c == BigCmp(rem, BigShl(<<1>>, sh - 1))
                      q1 == IF c > 0 \/ (c = 0 /\ BigIsOdd(q))
                            THEN BigAdd(q, <<1>>) ELSE q
                  IN  IF BigBitLen(q1) > MantBits
                      THEN [s |-> s, m |-> BigShr(q1, 1), e |-> E + sh + 1]
                      ELSE [s |-> s, m |-> q1, e |-> E + sh]

\* the float of a Python int literal
FFromInt(n) == FRound(IF n < 0 THEN 1 ELSE 0, BigFromNat(IF n < 0 THEN -n ELSE n), 0)

FNeg(a) == IF a.m = << >> THEN a ELSE [s |-> 1 - a.s, m |-> a.m, e |-> a.e]

FAbs(a) == [s |-> 0, m |-> a.m, e |-> a.e]

FMul(a, b) ==
    IF a.m = << >> \/ b.m = << >> THEN FZero
    ELSE FRound((a.s + b.s) % 2, BigMul(a.m, b.m), a.e + b.e)

FAdd(a, b) ==
    IF a.m = << >> THEN b
    ELSE IF b.m = << >> THEN a
    ELSE LET e == IF a.e < b.e THEN a.e ELSE b.e
             Ma == BigShl(a.m, a.e - e)
             Mb == BigShl(b.m, b.e - e)
         IN  IF a.s = b.s THEN FRound(a.s, BigAdd(Ma, Mb), e)
             ELSE IF BigCmp(Ma, Mb) >= 0 THEN FRound(a.s, BigSub(Ma, Mb), e)
             ELSE FRound(b.s, BigSub(Mb, Ma), e)

FSub(a, b) == FAdd(a, FNeg(b))

\* a / b for b # 0: the quotient to 56 or 57 bits and a sticky bit that
\* records a nonzero remainder, rounded once
FDiv(a, b) ==
    IF a.m = << >> THEN FZero
    ELSE LET qr == BigDivMod(BigShl(a.m, MantBits + 3), b.m)
             sticky == IF qr[2] = << >> THEN << >> ELSE <<1>>
         IN  FRound((a.s + b.s) % 2, BigAdd(BigShl(qr[1], 1), sticky),
                    a.e - b.e - (MantBits + 3) - 1)

\* b^n for a limb-sized b >= 1, by squaring
RECURSIVE BigPow(_, _)
BigPow(b, n) ==
    IF n = 0 THEN <<1>>
    ELSE LET h == BigPow(b, n \div 2)
         IN  IF h = << >> THEN << >>
             ELSE IF n % 2 = 0 THEN BigMul(h, h)
             ELSE BigMulSmall(BigMul(h, h), b)

\* b ** n for a float b that holds a small positive integer and an integer
\* n >= 0: the exactly computed power, rounded once
FPowInt(b, n) == FRound(0, BigPow(b, n), 0)

FOne == FFromInt(1)

(***************************************************************************)
(* NumPy arrays of float64: a sequence of binary64 values, indexed from 0  *)
(* with Python's wrap-around of negative indices.                          *)
(***************************************************************************)
\* np.zeros(k) for k >= 0
zeros(k) == [i \in 1..k |-> FZero]

IndexOK(a, i) == -Len(a) <= i /\ i < Len(a)

Pos(a, i) == IF i < 0 THEN i + Len(a) + 1 ELSE i + 1

GetItem(a, i) == a[Pos(a, i)]

SetItem(a, i, v) == [a EXCEPT ![Pos(a, i)] = v]

(***************************************************************************)
(* The recurrences of prec and qrec, as Python evaluates them: the         *)
(* coefficient literals are divided first, then multiplied, and the two    *)
(* products subtracted, each operation rounded.                            *)
(***************************************************************************)
\* 1/3 where / is the floor division of two ints
seed1_floor == FZero

\* 1./3
seed1 == FDiv(FOne, FFromInt(3))

\* the coefficient literals 5./6, 1./6, 5./3 and 4./9
c5_6 == FDiv(FFromInt(5), FFromInt(6))

c1_6 == FDiv(FOne, FFromInt(6))

c5_3 == FDiv(FFromInt(5), FFromInt(3))

c4_9 == FDiv(FFromInt(4), FFromInt(9))

\* 5./6*b - 1./6*a: the two earlier entries taken in the wrong order
prec_rhs_swapped(a, b) == FSub(FMul(c5_6, b), FMul(c1_6, a))

\* 5./6*a - 1./6*b
prec_rhs(a, b) == FSub(FMul(c5_6, a), FMul(c1_6, b))

\* qrec left with the coefficients of prec
qrec_rhs_as_prec(a, b) == FSub(FMul(c5_6, a), FMul(c1_6, b))

\* 5./3*a - 4./9*b
qrec_rhs(a, b) == FSub(FMul(c5_3, a), FMul(c4_9, b))

rhs(fn, a, b) == IF fn = "prec" THEN prec_rhs(a, b) ELSE qrec_rhs(a, b)

\* j in range(2,n): the range one short
in_range_short(j, n) == 2 <= j /\ j < n

\* j in range(2,n+1), the values of the loop variable
in_range(j, n) == 2 <= j /\ j < n + 1

\* the indices the loop body reads, and the one it writes
body_reads(j) == {j - 1, j - 2}

\* p[j-1] =, the store one entry too low
body_write_prev(j) == j - 1

body_write(j) == j

(***************************************************************************)
(* The fractional error of the test cell.                                  *)
(***************************************************************************)
\* np.arange(k)
arange(k) == [i \in 1..k |-> i - 1]

\* 1/3.**n, elementwise
reference(nn) == [i \in 1..Len(nn) |-> FDiv(FOne, FPowInt(3, nn[i]))]

\* np.abs(1-s*3.**n), elementwise: the product in place of the quotient
frac_err_product(s, ex) ==
    [i \in 1..Len(s) |-> FAbs(FSub(FOne, FMul(s[i], FPowInt(3, i - 1))))]

\* np.abs(1-s/expected), elementwise over arrays of one length
frac_err(s, ex) == [i \in 1..Len(s) |-> FAbs(FSub(FOne, FDiv(s[i], ex[i])))]

(***************************************************************************)
(* Exact rationals <<num, den>> in lowest terms with den > 0, for the      *)
(* recursion formulas of the markdown cells, which are stated over the     *)
(* reals.                                                                  *)
(***************************************************************************)
Abs(i) == IF i < 0 THEN -i ELSE i

RECURSIVE Gcd(_, _)
Gcd(a, b) == IF b = 0 THEN a ELSE Gcd(b, a % b)

Rat(a, b) ==
    LET g == Gcd(Abs(a), Abs(b))
    IN  IF b < 0 THEN <<(-a) \div g, (-b) \div g>> ELSE <<a \div g, b \div g>>

RatAdd(x, y) ==
    LET g == Gcd(x[2], y[2])
    IN  Rat(x[1] * (y[2] \div g) + y[1] * (x[2] \div g), x[2] * (y[2] \div g))

RatNeg(x) == <<-x[1], x[2]>>

RatSub(x, y) == RatAdd(x, RatNeg(y))

RatMul(x, y) ==
    LET a == Rat(x[1], y[2])
        b == Rat(y[1], x[2])
    IN  <<a[1] * b[1], a[2] * b[2]>>

RatAbs(x) == <<Abs(x[1]), x[2]>>

\* x <= y
RatLeq(x, y) == RatSub(y, x)[1] >= 0

RECURSIVE RatPow(_, _)
RatPow(x, i) == IF i = 0 THEN <<1, 1>> ELSE RatMul(x, RatPow(x, i - 1))

\* the formula of p with its sign wrong
p_formula_plus(a, b) == RatAdd(RatMul(Rat(5, 6), a), RatMul(Rat(1, 6), b))

\* the formula of p with the coefficients of q
p_formula_as_q(a, b) == RatSub(RatMul(Rat(5, 3), a), RatMul(Rat(4, 9), b))

\* p_n = 5/6 p_{n-1} - 1/6 p_{n-2}
p_formula(a, b) == RatSub(RatMul(Rat(5, 6), a), RatMul(Rat(1, 6), b))

\* the formula of q with the coefficients of p
q_formula_as_p(a, b) == RatSub(RatMul(Rat(5, 6), a), RatMul(Rat(1, 6), b))

\* the formula of q with its second coefficient mistyped
q_formula_typo(a, b) == RatSub(RatMul(Rat(5, 3), a), RatMul(Rat(4, 3), b))

\* q_n = 5/3 q_{n-1} - 4/9 q_{n-2}
q_formula(a, b) == RatSub(RatMul(Rat(5, 3), a), RatMul(Rat(4, 9), b))

(***************************************************************************)
(* State.  N, p, q, n, expected, perr and qerr are the notebook's globals  *)
(* (<< >> while unset); pc is the next line of the test cell; frame is the *)
(* running call of prec or qrec: its function, argument n, local array,    *)
(* loop index j and next line "at"; exc is the exception that ended the    *)
(* cell.                                                                   *)
(* The cells prec(4) and qrec(4) of the small tests are run with the *)
(* same arguments as the test cell, at pc = "cell_prec" and "cell_qrec".   *)
(* allocs counts the arrays np.zeros has returned and writes, per   *)
(* index of the local array, the stores into it.                           *)
(*                                                                         *)
(* Out holds the values IPython keeps of the cells prec(4) and qrec(4),    *)
(* Out[5] and Out[6].  The notebook is run in order from the cell it is    *)
(* started at, and an exception ends the run.                              *)
(*                                                                         *)
(* xN, xk, xeps, xp, xq, tp and tq belong to the exact evaluation of the   *)
(* two recursion formulas (ExactSpec below), ipow to the integer power of  *)
(* the aside (IntPowSpec below).                                           *)
(***************************************************************************)
VARIABLES N, pc, p, q, n, expected, perr, qerr, frame, exc, allocs, writes,
          Out, xN, xk, xeps, xp, xq, tp, tq, ipow, refrun

cell == <<N, pc, p, q, n, expected, perr, qerr, frame, exc, allocs, writes,
          Out>>

exact == <<xN, xk, xeps, xp, xq, tp, tq>>

aside == <<exact, ipow, refrun>>

vars == <<cell, aside>>

IntPowIdle == ipow = [at |-> "idle"]

RefIdle == refrun = [at |-> "idle"]

NoOut == [i \in {5, 6} |-> << >>]

ExactIdle ==
    /\ xN = 0 /\ xk = 0 /\ xeps = <<0, 1>>
    /\ xp = << >> /\ xq = << >> /\ tp = << >> /\ tq = << >>

\* the model runs the cell for N in -MaxNeg .. MaxN
MaxN == 8

MaxNeg == 2

\* N=40, the argument of the notebook's test cell
TestN == 40

NoFrame == [fn |-> "none", n |-> 0, arr |-> << >>, j |-> 0, at |-> "none"]

Init ==
    /\ N \in (-MaxNeg..MaxN) \cup {TestN}
    /\ pc \in {"call_prec", "cell_prec", "cell_qrec"}
    /\ p = << >> /\ q = << >> /\ n = << >>
    /\ expected = << >> /\ perr = << >> /\ qerr = << >>
    /\ frame = NoFrame
    /\ exc = "none"
    /\ allocs = 0
    /\ writes = << >>
    /\ Out = NoOut
    /\ ExactIdle
    /\ IntPowIdle
    /\ RefIdle

globals == <<N, p, q, n, expected, perr, qerr, Out>>

\* an exception leaves the function and ends the cell
Raise(e) ==
    /\ exc' = e
    /\ pc' = "error"
    /\ frame' = [frame EXCEPT !.at = "raised"]

\* the function a line calls, and the line while its call runs
callee(line) == IF line \in {"call_prec", "cell_prec"} THEN "prec" ELSE "qrec"

running(line) ==
    CASE line = "call_prec" -> "in_prec"
      [] line = "call_qrec" -> "in_qrec"
      [] line = "cell_prec" -> "in_cell_prec"
      [] line = "cell_qrec" -> "in_cell_qrec"

\* p = prec(N), q = qrec(N), prec(N) and qrec(N): the call enters the function
Call ==
    /\ pc \in {"call_prec", "call_qrec", "cell_prec", "cell_qrec"}
    /\ frame.at \in {"none", "returned"}
    /\ frame' = [fn |-> callee(pc), n |-> N, arr |-> << >>, j |-> 0,
                 at |-> "zeros"]
    /\ pc' = running(pc)
    /\ writes' = << >>
    /\ UNCHANGED <<globals, exc, allocs>>
    /\ UNCHANGED aside

\* p = np.zeros(n+1): a negative length is a ValueError
Alloc ==
    /\ frame.at = "zeros"
    /\ IF frame.n + 1 < 0
       THEN /\ Raise("ValueError")
            /\ UNCHANGED <<allocs, writes>>
       ELSE /\ frame' = [frame EXCEPT !.arr = zeros(frame.n + 1), !.at = "seed0"]
            /\ allocs' = allocs + 1
            /\ writes' = [i \in 1..(frame.n + 1) |-> 0]
            /\ UNCHANGED <<pc, exc>>
    /\ UNCHANGED globals
    /\ UNCHANGED aside

\* a store arr[i] = v of the running call, an IndexError out of bounds
Store(i, v, next, jnext) ==
    IF IndexOK(frame.arr, i)
    THEN /\ frame' = [frame EXCEPT !.arr = SetItem(frame.arr, i, v),
                                   !.at = next, !.j = jnext]
         /\ writes' = [writes EXCEPT ![Pos(frame.arr, i)] = @ + 1]
         /\ UNCHANGED <<pc, exc>>
    ELSE /\ Raise("IndexError")
         /\ UNCHANGED writes

\* p[0] = 1
Seed0 ==
    /\ frame.at = "seed0"
    /\ Store(0, FOne, "seed1", 0)
    /\ UNCHANGED <<globals, allocs>>
    /\ UNCHANGED aside

\* p[1] = 1./3, and the loop's range(2,n+1) starts at 2
Seed1 ==
    /\ frame.at = "seed1"
    /\ Store(1, seed1, "loop", 2)
    /\ UNCHANGED <<globals, allocs>>
    /\ UNCHANGED aside

\* one pass of  for j in range(2,n+1): p[j] = ...p[j-1] - ...p[j-2]
LoopStep ==
    /\ frame.at = "loop"
    /\ in_range(frame.j, frame.n)
    /\ IF \A i \in body_reads(frame.j) : IndexOK(frame.arr, i)
       THEN Store(body_write(frame.j),
                  rhs(frame.fn, GetItem(frame.arr, frame.j - 1),
                                GetItem(frame.arr, frame.j - 2)),
                  "loop", frame.j + 1)
       ELSE Raise("IndexError") /\ UNCHANGED writes
    /\ UNCHANGED <<globals, allocs>>
    /\ UNCHANGED aside

\* return p, once the range is exhausted; the test cell binds the result
Return ==
    /\ frame.at = "loop"
    /\ ~in_range(frame.j, frame.n)
    /\ frame' = [frame EXCEPT !.at = "returned"]
    /\ CASE pc = "in_prec" ->
                /\ p' = frame.arr /\ pc' = "call_qrec"
                /\ UNCHANGED <<q, Out>>
         [] pc = "in_qrec" ->
                /\ q' = frame.arr /\ pc' = "reference"
                /\ UNCHANGED <<p, Out>>
         [] pc = "in_cell_prec" ->
                /\ Out' = [Out EXCEPT ![5] = frame.arr] /\ pc' = "cell_qrec"
                /\ UNCHANGED <<p, q>>
         [] pc = "in_cell_qrec" ->
                /\ Out' = [Out EXCEPT ![6] = frame.arr] /\ pc' = "call_prec"
                /\ UNCHANGED <<p, q>>
    /\ UNCHANGED <<N, n, expected, perr, qerr, exc, allocs, writes>>
    /\ UNCHANGED aside

\* n = np.arange(N+1); expected = 1/3.**n
Reference ==
    /\ pc = "reference"
    /\ n' = arange(N + 1)
    /\ expected' = reference(arange(N + 1))
    /\ pc' = "perr"
    /\ UNCHANGED <<N, p, q, perr, qerr, frame, exc, allocs, writes, Out>>
    /\ UNCHANGED aside

\* p /= expected; perr = np.abs(1-p): the quotient formed in place
Perr_inplace ==
    /\ pc = "perr"
    /\ p' = [i \in 1..Len(p) |-> FDiv(p[i], expected[i])]
    /\ perr' = [i \in 1..Len(p) |-> FAbs(FSub(FOne, FDiv(p[i], expected[i])))]
    /\ pc' = "qerr"
    /\ UNCHANGED <<N, q, n, expected, qerr, frame, exc, allocs, writes, Out>>
    /\ UNCHANGED aside

\* perr = np.abs(1-p/expected)
Perr ==
    /\ pc = "perr"
    /\ perr' = frac_err(p, expected)
    /\ pc' = "qerr"
    /\ UNCHANGED <<N, p, q, n, expected, qerr, frame, exc, allocs, writes,
                   Out>>
    /\ UNCHANGED aside

\* qerr = np.abs(1-q/expected)
Qerr ==
    /\ pc = "qerr"
    /\ qerr' = frac_err(q, expected)
    /\ pc' = "done"
    /\ UNCHANGED <<N, p, q, n, expected, perr, frame, exc, allocs, writes,
                   Out>>
    /\ UNCHANGED aside

Next ==
    \/ Call
    \/ Alloc
    \/ Seed0
    \/ Seed1
    \/ LoopStep
    \/ Return
    \/ Reference
    \/ Perr
    \/ Qerr

Spec == Init /\ [][Next]_vars

(***************************************************************************)
(* The recursion formulas over the rationals.  Both sequences start from   *)
(* x_0 = 1 and a common x_1 and are continued to index xN; xp and xq       *)
(* receive the error xeps in entry xk (xk = 0: no error) and are otherwise *)
(* computed exactly, tp and tq are computed exactly throughout.  Entry j   *)
(* of a sequence is its element j + 1.  x_1 = 1/3 is the notebook's start  *)
(* value; the other start values make 1, x, x^2, ... the object of the     *)
(* characteristic equation x^2 = c1 x - c2.                                *)
(***************************************************************************)
\* the runs go up to index MaxTerm
MaxTerm == 8

third == Rat(1, 3)

StartValues == {third, Rat(1, 2), Rat(4, 3)}

Errors == {Rat(1, 8), Rat(-1, 8), Rat(1, 5)}

CellIdle ==
    /\ N = 0 /\ pc = "idle"
    /\ p = << >> /\ q = << >> /\ n = << >>
    /\ expected = << >> /\ perr = << >> /\ qerr = << >>
    /\ frame = NoFrame /\ exc = "none" /\ allocs = 0 /\ writes = << >>
    /\ Out = NoOut

\* entry 1 when the error falls on it
Start(x1, k, eps) == IF k = 1 THEN RatAdd(x1, eps) ELSE x1

ExactInit ==
    /\ CellIdle
    /\ IntPowIdle
    /\ RefIdle
    /\ xN \in 1..MaxTerm
    /\ \E x1 \in StartValues :
          /\ \/ xk = 0 /\ xeps = Rat(0, 1)
             \/ x1 = third /\ xk \in 1..xN /\ xeps \in Errors
          /\ xp = <<Rat(1, 1), Start(x1, xk, xeps)>>
          /\ xq = <<Rat(1, 1), Start(x1, xk, xeps)>>
          /\ tp = <<Rat(1, 1), x1>>
          /\ tq = <<Rat(1, 1), x1>>

\* the value v computed for entry j, with the error eps added when entry j
\* is the one that receives it
Entry(v, j, k, eps) == IF j = k THEN RatAdd(v, eps) ELSE v

\* entry j = Len of all four sequences, for j = 2, ..., xN
ExactStep ==
    LET j == Len(xp)
    IN  /\ j <= xN
        /\ xp' = Append(xp, Entry(p_formula(xp[j], xp[j - 1]), j, xk, xeps))
        /\ xq' = Append(xq, Entry(q_formula(xq[j], xq[j - 1]), j, xk, xeps))
        /\ tp' = Append(tp, p_formula(tp[j], tp[j - 1]))
        /\ tq' = Append(tq, q_formula(tq[j], tq[j - 1]))
        /\ UNCHANGED <<xN, xk, xeps, cell, ipow, refrun>>

ExactNext == ExactStep

ExactSpec == ExactInit /\ [][ExactNext]_vars

(***************************************************************************)
(* The aside: 1/3**n, 3**n[-1] and 3**N.  n = np.arange(N+1) is an array   *)
(* of the platform's default integer type, a signed integer of IntWidths   *)
(* bits (64 in the recorded run), and NumPy computes 3**n in that type,    *)
(* keeping the low bits of every product.  3**N with the Python int N is   *)
(* computed without a bound.  A fixed-width integer is [neg, mag], its     *)
(* sign and magnitude; a register holds its bits as a natural number.      *)
(***************************************************************************)
\* the number written in decimal by the digits ds, the first digit leading
RECURSIVE BigFromDigitsAcc(_, _)
BigFromDigitsAcc(ds, acc) ==
    IF ds = << >> THEN acc
    ELSE LET nxt == BigAdd(BigMulSmall(acc, 10), BigFromNat(Head(ds)))
         IN  IF nxt = << >> THEN BigFromDigitsAcc(Tail(ds), << >>)
             ELSE BigFromDigitsAcc(Tail(ds), nxt)

BigFromDigits(ds) == BigFromDigitsAcc(ds, << >>)

\* the low w bits of x
BigLow(x, w) == BigSub(x, BigShl(BigShr(x, w), w))

\* the widths of the default integer type
IntWidths == {32, 64}

\* the model computes 3**n for n up to MaxExp
MaxExp == 100

\* the w bits read as an unsigned integer
to_unsigned(x, w) == [neg |-> FALSE, mag |-> x]

\* the w bits read as a signed integer in two's complement
to_signed(x, w) ==
    IF BigCmp(x, BigShl(<<1>>, w - 1)) < 0
    THEN [neg |-> FALSE, mag |-> x]
    ELSE [neg |-> TRUE, mag |-> BigSub(BigShl(<<1>>, w), x)]

\* a * b in a register of w bits
int_mul(a, b, w) == BigLow(BigMul(a, b), w)

\* b ** e in a register of w bits, by squaring
RECURSIVE int_power_loop(_, _, _, _)
int_power_loop(b, e, out, w) ==
    IF e = 0 THEN out
    ELSE LET o == IF e % 2 = 1 THEN int_mul(out, b, w) ELSE out
             b2 == IF e \div 2 = 0 THEN b ELSE int_mul(b, b, w)
         IN  IF o = << >> \/ b2 = << >> THEN << >>
             ELSE int_power_loop(b2, e \div 2, o, w)

\* 3**k, an element of 3**n
int_power(b, k, w) == to_signed(int_power_loop(BigFromNat(b), k, <<1>>, w), w)

\* 1/x for an integer x # 0: both operands converted to float64
int_recip(x) == FDiv(FOne, FRound(IF x.neg THEN 1 ELSE 0, x.mag, 0))

\* 3**N for the Python int N
py_power(b, k) == BigPow(b, k)

IntPowInit ==
    /\ CellIdle
    /\ ExactIdle
    /\ RefIdle
    /\ \E w \in IntWidths, nn \in {TestN, MaxExp} :
          ipow = [at |-> "cell8", w |-> w, N |-> nn, pw |-> << >>,
                  recip |-> << >>, last |-> << >>, py |-> << >>]

\* 3**n, one element
PowElem ==
    /\ ipow.at = "cell8"
    /\ Len(ipow.pw) < ipow.N + 1
    /\ ipow' = [ipow EXCEPT !.pw = Append(@, int_power(3, Len(@), ipow.w))]
    /\ UNCHANGED <<cell, exact, refrun>>

\* 1/3**n, one element
DivElem ==
    /\ ipow.at = "cell8"
    /\ Len(ipow.pw) = ipow.N + 1
    /\ Len(ipow.recip) < ipow.N + 1
    /\ ipow' = [ipow EXCEPT
                   !.recip = Append(@, int_recip(ipow.pw[Len(@) + 1])),
                   !.at = IF Len(ipow.recip) = ipow.N THEN "cell10"
                          ELSE "cell8"]
    /\ UNCHANGED <<cell, exact, refrun>>

\* 3**n[-1]
LastPower ==
    /\ ipow.at = "cell10"
    /\ ipow' = [ipow EXCEPT !.last = int_power(3, ipow.N, ipow.w),
                            !.at = "cell12"]
    /\ UNCHANGED <<cell, exact, refrun>>

\* 3**N
PyPower ==
    /\ ipow.at = "cell12"
    /\ ipow' = [ipow EXCEPT !.py = py_power(3, ipow.N), !.at = "done"]
    /\ UNCHANGED <<cell, exact, refrun>>

IntPowNext == PowElem \/ DivElem \/ LastPower \/ PyPower

IntPowSpec == IntPowInit /\ [][IntPowNext]_vars

(***************************************************************************)
(* The reference value expected = 1/3.**n over the whole range of float64, *)
(* and the division by it in perr and qerr.  A float64 result is           *)
(* [kind, val]: beyond the largest finite value it is the infinity, below  *)
(* the smallest normal value it is rounded to a multiple of 2^EMin, with   *)
(* fewer than MantBits significant bits.  The run carries the integer 3^j  *)
(* from one element to the next.                                           *)
(***************************************************************************)
\* finite float64 values are below 2^EMax
EMax == 1024

\* the smallest positive float64 is 2^EMin
EMin == -1074

\* the model computes the elements of expected up to index MaxRef
MaxRef == 650

Finite(v) == [kind |-> "finite", val |-> v]

Infinity(s) == [kind |-> "inf", val |-> [s |-> s, m |-> << >>, e |-> 0]]

\* (-1)^s * M * 2^E rounded to float64
FRoundFull(s, M, E) ==
    IF M = << >> THEN Finite(FZero)
    ELSE LET L == BigBitLen(M)
         IN  IF E + L - MantBits < EMin
             THEN LET sh == EMin - E
                  IN  IF sh <= 0 THEN Finite([s |-> s, m |-> M, e |-> E])
                      ELSE LET hi == BigShr(M, sh)
                               rem == BigSub(M, BigShl(hi, sh))
                               c == BigCmp(rem, BigShl(<<1>>, sh - 1))
                               up == IF c > 0 \/ (c = 0 /\ BigIsOdd(hi))
                                     THEN BigAdd(hi, <<1>>) ELSE hi
                           IN  IF up = << >> THEN Finite(FZero)
                               ELSE Finite([s |-> s, m |-> up, e |-> EMin])
             ELSE LET r == FRound(s, M, E)
                  IN  IF r.e + MantBits > EMax THEN Infinity(s)
                      ELSE Finite(r)

\* a / b for finite a, b with b # 0, in float64
FDivFull(a, b) ==
    IF a.m = << >> THEN Finite(FZero)
    ELSE LET qr == BigDivMod(BigShl(a.m, MantBits + 3), b.m)
             sticky == IF qr[2] = << >> THEN << >> ELSE <<1>>
         IN  FRoundFull((a.s + b.s) % 2, BigAdd(BigShl(qr[1], 1), sticky),
                        a.e - b.e - (MantBits + 3) - 1)

\* 3.**j, given x = 3^j
ref_power(x) == FRoundFull(0, x, 0)

\* 1/3.**j; 1/inf is 0.0
ref_recip(pw) ==
    IF pw.kind = "inf" THEN Finite(FZero) ELSE FDivFull(FOne, pw.val)

IsZero(v) == v.kind = "finite" /\ v.val.m = << >>

NoValue == [kind |-> "none"]

RefInit ==
    /\ CellIdle
    /\ ExactIdle
    /\ IntPowIdle
    /\ \E nn \in {TestN, MaxRef} :
          refrun = [at |-> "power", N |-> nn, j |-> 0, x |-> <<1>>,
                    pw |-> NoValue, ex |-> NoValue, warn |-> {},
                    exc |-> "none"]

\* 3.**n, one element: an overflow is a RuntimeWarning
RefPower ==
    /\ refrun.at = "power"
    /\ LET v == ref_power(refrun.x)
       IN  refrun' = [refrun EXCEPT
                         !.pw = v, !.at = "recip",
                         !.warn = IF v.kind = "inf"
                                  THEN @ \cup {"overflow encountered in power"}
                                  ELSE @]
    /\ UNCHANGED <<cell, exact, ipow>>

\* expected = 1/3.**n, one element
RefRecip ==
    /\ refrun.at = "recip"
    /\ refrun' = [refrun EXCEPT !.ex = ref_recip(refrun.pw), !.at = "error"]
    /\ UNCHANGED <<cell, exact, ipow>>

\* p/expected, one element: a division by 0.0 is a RuntimeWarning, its
\* result an infinity or a nan; then on to the next element
RefError ==
    /\ refrun.at = "error"
    /\ refrun' = [refrun EXCEPT
                     !.warn = IF IsZero(refrun.ex)
                              THEN @ \cup {"divide by zero encountered in divide"}
                              ELSE @,
                     !.j = IF refrun.j = refrun.N THEN @ ELSE @ + 1,
                     !.x = IF refrun.j = refrun.N THEN @
                           ELSE BigMulSmall(@, 3),
                     !.at = IF refrun.j = refrun.N THEN "done" ELSE "power"]
    /\ UNCHANGED <<cell, exact, ipow>>

RefNext == RefPower \/ RefRecip \/ RefError

RefSpec == RefInit /\ [][RefNext]_vars

(***************************************************************************)
(* Properties of the cells (Spec).                                         *)
(***************************************************************************)

\* C1: for every N >= 1 a call of prec or of qrec runs to its return without
\* an exception, and the array it returns has exactly N + 1 entries, entry 0
\* the value 1 and entry 1 the binary64 value nearest to 1/3 (53 significant
\* bits m at exponent e with |3 m - 2^(-e)| <= 1); in the test cell p and q
\* agree on entries 0 and 1.
C1_SeedsAndLength ==
    LET IsOne(x) == x.s = 0 /\ x.e <= 0 /\ x.m = BigShl(<<1>>, -x.e)
        IsThird(x) ==
            /\ x.s = 0 /\ x.e < 0 /\ BigBitLen(x.m) = MantBits
            /\ BigCmp(BigAdd(BigMulSmall(x.m, 3), <<1>>), BigShl(<<1>>, -x.e)) >= 0
            /\ BigCmp(BigMulSmall(x.m, 3), BigAdd(BigShl(<<1>>, -x.e), <<1>>)) <= 0
        HasSeeds(a) ==
            /\ Len(a) = N + 1
            /\ IsOne(GetItem(a, 0))
            /\ IsThird(GetItem(a, 1))
    IN  N >= 1 =>
          /\ exc = "none" /\ pc # "error"
          /\ pc = "done" => frame.at = "returned"
          /\ frame.at = "returned" => HasSeeds(frame.arr)
          /\ p # << >> => HasSeeds(p)
          /\ q # << >> =>
                /\ HasSeeds(p) /\ HasSeeds(q)
                /\ GetItem(p, 0) = GetItem(q, 0)
                /\ GetItem(p, 1) = GetItem(q, 1)

\* C1 witness: the test cell has run both generators for some N >= 2 and
\* holds the two arrays of N + 1 entries
C1_Witness ==
    /\ N >= 2 /\ pc = "done"
    /\ Len(p) = N + 1 /\ Len(q) = N + 1
    /\ GetItem(p, 1) = GetItem(q, 1)

\* C2: for every N >= 2 and every j in 2..N the array prec returns, and the
\* array the test cell holds as p from then on, satisfies
\* seq[j] = 5/6 seq[j-1] - 1/6 seq[j-2] on its final entries, the quotients,
\* products and difference being those of binary64.
C2_PRecurrence ==
    LET Holds(a, j) ==
            /\ Len(a) = N + 1
            /\ GetItem(a, j) =
                  FSub(FMul(FDiv(FFromInt(5), FFromInt(6)), GetItem(a, j - 1)),
                       FMul(FDiv(FFromInt(1), FFromInt(6)), GetItem(a, j - 2)))
    IN  \A j \in 2..N :
          /\ frame.at = "returned" /\ frame.fn = "prec" => Holds(frame.arr, j)
          /\ p # << >> => Holds(p, j)

\* C2 witness: prec has returned an array with entries beyond the two seeds,
\* the last of them nonzero
C2_Witness ==
    /\ N >= 3 /\ frame.at = "returned" /\ frame.fn = "prec"
    /\ Len(frame.arr) = N + 1
    /\ GetItem(frame.arr, N).m # << >>

\* C3: for every N >= 2 and every j in 2..N the array qrec returns, and the
\* array the test cell holds as q from then on, satisfies
\* seq[j] = 5/3 seq[j-1] - 4/9 seq[j-2] on its final entries, the quotients,
\* products and difference being those of binary64.
C3_QRecurrence ==
    LET Holds(a, j) ==
            /\ Len(a) = N + 1
            /\ GetItem(a, j) =
                  FSub(FMul(FDiv(FFromInt(5), FFromInt(3)), GetItem(a, j - 1)),
                       FMul(FDiv(FFromInt(4), FFromInt(9)), GetItem(a, j - 2)))
    IN  \A j \in 2..N :
          /\ frame.at = "returned" /\ frame.fn = "qrec" => Holds(frame.arr, j)
          /\ q # << >> => Holds(q, j)

\* C3 witness: qrec has returned an array with entries beyond the two seeds,
\* the last of them nonzero
C3_Witness ==
    /\ N >= 3 /\ frame.at = "returned" /\ frame.fn = "qrec"
    /\ Len(frame.arr) = N + 1
    /\ GetItem(frame.arr, N).m # << >>

\* C4: called with N = 0, prec and qrec return the one-entry array [1]: no
\* exception is raised, no store out of the array's bounds ends the call,
\* and the array a call returns is [1].
C4_ZeroReturnsOne ==
    N = 0 =>
      /\ exc = "none" /\ pc # "error"
      /\ frame.at # "raised"
      /\ frame.at = "returned" => frame.arr = <<FOne>>

\* C5: called with N < 0, prec and qrec fail with an invalid-argument error
\* (Python's ValueError) before any computation: np.zeros returns no array,
\* no entry is stored, and nothing is returned.
C5_NegativeRejectedFirst ==
    N < 0 =>
      /\ allocs = 0
      /\ \A i \in 1..Len(writes) : writes[i] = 0
      /\ frame.at \notin {"seed0", "seed1", "loop", "returned"}
      /\ exc \in {"none", "ValueError"}
      /\ p = << >> /\ q = << >>

\* C7 (as stated): once the test cell has computed perr and qerr from
\* S = p and S = q, each has N + 1 entries and entry j is both
\* |1 - S[j]/(1/3^j)| and |1 - S[j]*3^j|, evaluated in binary64 as the cell
\* evaluates its expression; every entry is >= 0, is 0 exactly when S[j] is
\* the reference value 1/3.**j, and entries 0 and 1 are 0.
C7_QuotientAndProduct ==
    LET pow3(j) == FRound(0, BigPow(3, j), 0)
        ref(j) == FDiv(FFromInt(1), pow3(j))
        Analysed(S, err) ==
            /\ Len(S) = N + 1 /\ Len(err) = N + 1
            /\ \A j \in 0..N :
                  /\ err[j + 1] = FAbs(FSub(FFromInt(1), FDiv(S[j + 1], ref(j))))
                  /\ err[j + 1] = FAbs(FSub(FFromInt(1), FMul(S[j + 1], pow3(j))))
                  /\ err[j + 1].s = 0
                  /\ err[j + 1].m = << >> <=> S[j + 1] = ref(j)
                  /\ j <= 1 => err[j + 1].m = << >>
    IN  /\ perr # << >> => Analysed(p, perr)
        /\ qerr # << >> => Analysed(q, qerr)

\* C7 (amended): once the test cell has computed perr and qerr from S = p
\* and S = q, each has N + 1 entries and entry j is |1 - S[j]/(1/3^j)|
\* evaluated in binary64: the reference 1/3.**j, the quotient by it, the
\* difference from 1 and the magnitude.  Every entry is >= 0, is 0 exactly
\* when S[j] is the reference value, and entries 0 and 1 are 0.
C7_QuotientForm ==
    LET pow3(j) == FRound(0, BigPow(3, j), 0)
        ref(j) == FDiv(FFromInt(1), pow3(j))
        Analysed(S, err) ==
            /\ Len(S) = N + 1 /\ Len(err) = N + 1
            /\ \A j \in 0..N :
                  /\ err[j + 1] = FAbs(FSub(FFromInt(1), FDiv(S[j + 1], ref(j))))
                  /\ err[j + 1].s = 0
                  /\ err[j + 1].m = << >> <=> S[j + 1] = ref(j)
                  /\ j <= 1 => err[j + 1].m = << >>
    IN  /\ perr # << >> => Analysed(p, perr)
        /\ qerr # << >> => Analysed(q, qerr)

\* C7 witness: both error arrays are computed, with zero and nonzero
\* entries, and an entry of qerr differs from the product form
C7_Witness ==
    /\ pc = "done" /\ N >= 3
    /\ Len(perr) = N + 1 /\ Len(qerr) = N + 1
    /\ qerr[2].m = << >>
    /\ \E j \in 2..N :
          /\ qerr[j + 1].m # << >>
          /\ qerr[j + 1] #
                FAbs(FSub(FOne, FMul(q[j + 1], FRound(0, BigPow(3, j), 0))))

\* C14: in the test cell run with N = 40 in binary64, the fractional error
\* of the q sequence at index 40 is greater than 1.0 and the fractional
\* error of the p sequence at index 40 is less than 1e-7.  The comparisons
\* are exact: m 2^e of one side against m 2^e of the other.
C14_ErrorsAtForty ==
    LET Less(a, b) ==
            LET e0 == IF a.e < b.e THEN a.e ELSE b.e
            IN  BigCmp(BigShl(a.m, a.e - e0), BigShl(b.m, b.e - e0)) < 0
        tenth7 == FDiv(FFromInt(1), FFromInt(10000000))
    IN  (N = 40 /\ pc = "done" /\ qerr # << >>) =>
            /\ Len(perr) = 41 /\ Len(qerr) = 41
            /\ qerr[41].s = 0 /\ perr[41].s = 0
            /\ Less(FFromInt(1), qerr[41])
            /\ Less(perr[41], tenth7)

\* C14 witness: the test cell has finished for N = 40 with both errors at
\* index 40 nonzero
C14_Witness ==
    /\ N = 40 /\ pc = "done"
    /\ Len(perr) = 41 /\ Len(qerr) = 41
    /\ perr[41].m # << >> /\ qerr[41].m # << >>

\* C15: prec, qrec and the error computation are pure.  For N >= 1:
\* every call works on an array of its own from np.zeros (allocs counts one
\* array per result held, and one more while a call is running); a result
\* once held (Out[5], Out[6], p, q, expected, perr, qerr) is never changed
\* by any later step, whichever call or cell that step belongs to; the
\* error computation leaves p, q and expected as they are; and the calls
\* with the same N return identical arrays (p = Out[5], q = Out[6]).
C15_Pure ==
    /\ [](N >= 1 =>
            LET Held == {x \in {"Out5", "Out6", "p", "q"} :
                            CASE x = "Out5" -> Out[5] # << >>
                              [] x = "Out6" -> Out[6] # << >>
                              [] x = "p" -> p # << >>
                              [] x = "q" -> q # << >>}
            IN  /\ frame.at \in {"seed0", "seed1", "loop"} =>
                      allocs = Cardinality(Held) + 1
                /\ frame.at \in {"none", "zeros", "returned"} =>
                      allocs = Cardinality(Held)
                /\ (p # << >> /\ Out[5] # << >>) => p = Out[5]
                /\ (q # << >> /\ Out[6] # << >>) => q = Out[6])
    /\ [][/\ Out[5] # << >> => Out'[5] = Out[5]
          /\ Out[6] # << >> => Out'[6] = Out[6]
          /\ p # << >> => p' = p
          /\ q # << >> => q' = q
          /\ expected # << >> => expected' = expected
          /\ perr # << >> => perr' = perr
          /\ qerr # << >> => qerr' = qerr
          /\ pc \in {"perr", "qerr"} =>
                p' = p /\ q' = q /\ expected' = expected]_vars

\* C15 witness: the notebook has run prec(N), qrec(N) and the test cell for
\* some N >= 2, and holds six results from four calls
C15_Witness ==
    /\ N >= 2 /\ pc = "done" /\ allocs = 4
    /\ Len(Out[5]) = N + 1 /\ Len(Out[6]) = N + 1
    /\ Len(p) = N + 1 /\ Len(q) = N + 1
    /\ Len(perr) = N + 1 /\ Len(qerr) = N + 1

\* C16: for every N >= 1 a call of prec or qrec raises no exception and
\* terminates: the number of lines it has yet to execute, N + 3 on entry
\* (np.zeros, the two seeds, N - 1 recurrence steps and the return), goes
\* down by one with every step of the call and is 0 once it has returned.
\* The loop variable starts at 2, each execution of the recurrence step
\* stores entry j and moves j to j + 1, with 2 <= j <= N, and the call
\* returns with j = N + 1: N - 1 executions for j = 2, 3, ..., N in
\* increasing order.  For N = 1 the step is never executed and the result
\* is [1, 1/3].
C16_StepsAndTermination ==
    /\ [](N >= 1 =>
            /\ exc = "none" /\ frame.at # "raised"
            /\ frame.at = "loop" => 2 <= frame.j /\ frame.j <= N + 1
            /\ frame.at = "returned" =>
                  /\ frame.j - 2 = N - 1
                  /\ N = 1 => frame.arr =
                        <<FFromInt(1), FDiv(FFromInt(1), FFromInt(3))>>)
    /\ [][(N >= 1 /\ frame.at = "seed1") => frame'.j = 2]_vars
    /\ [][(N >= 1 /\ frame.at = "loop" /\ frame'.at = "loop") =>
              /\ frame.j <= N
              /\ frame'.j = frame.j + 1
              /\ writes'[frame.j + 1] = writes[frame.j + 1] + 1
              /\ N # 1]_vars
    /\ [][LET ToGo(f) ==
                  CASE f.at = "zeros" -> N + 3
                    [] f.at = "seed0" -> N + 2
                    [] f.at = "seed1" -> N + 1
                    [] f.at = "loop" -> N + 2 - f.j
                    [] f.at = "returned" -> 0
                    [] OTHER -> -1
          IN  (N >= 1 /\ frame.at \in {"zeros", "seed0", "seed1", "loop"}) =>
                  /\ ToGo(frame) >= 1
                  /\ ToGo(frame') = ToGo(frame) - 1]_vars

\* C16 witness: a call has returned after five executions of the step
C16_Witness ==
    /\ N = 6 /\ frame.at = "returned" /\ frame.j = 7
    /\ Len(frame.arr) = 7

\* C17: the loop invariant of prec and qrec, for N >= 1.  Before the step
\* for index j, entries 0..j-1 have been stored exactly once and entries
\* j..N are still the 0.0 of np.zeros and have never been stored.  The
\* step reads entries j-1 and j-2 only and stores entry j only: every other
\* entry is left as it was, so the entries below j are final, and the new
\* entry j is the right-hand side computed from entries j-1 and j-2.  The
\* indices read and stored lie in 0..N, and at the return every entry
\* 2..N has been stored exactly once.
C17_LoopInvariant ==
    /\ [](N >= 1 /\ frame.at = "loop" =>
            /\ Len(frame.arr) = N + 1
            /\ \A i \in 0..N :
                  IF i < frame.j
                  THEN writes[i + 1] = 1 /\ frame.arr[i + 1] # FZero
                  ELSE writes[i + 1] = 0 /\ frame.arr[i + 1] = FZero
            /\ frame.j <= N =>
                  /\ body_reads(frame.j) \subseteq 0..(frame.j - 1)
                  /\ body_write(frame.j) = frame.j
                  /\ body_reads(frame.j) \cup {body_write(frame.j)}
                        \subseteq 0..N)
    /\ [](N >= 1 /\ frame.at = "returned" =>
            \A i \in 2..N : writes[i + 1] = 1)
    /\ [][(N >= 1 /\ frame.at = "loop") =>
              /\ frame'.at = "loop" =>
                    /\ \A i \in 0..N : i # frame.j =>
                          /\ frame'.arr[i + 1] = frame.arr[i + 1]
                          /\ writes'[i + 1] = writes[i + 1]
                    /\ frame'.arr[frame.j + 1] =
                          rhs(frame.fn, frame.arr[frame.j],
                                        frame.arr[frame.j - 1])
                    /\ writes'[frame.j + 1] = 1
              /\ frame'.at = "returned" =>
                    frame'.arr = frame.arr /\ writes' = writes]_vars

\* C17 witness: prec(6) or qrec(6) about to run the step for j = 4, entries
\* 0..3 stored and entries 4..6 still zero
C17_Witness ==
    /\ N = 6 /\ frame.at = "loop" /\ frame.j = 4
    /\ writes = <<1, 1, 1, 1, 0, 0, 0>>
    /\ frame.arr[5] = FZero /\ frame.arr[4] # FZero

(***************************************************************************)
(* Properties of the recursion formulas over the rationals (ExactSpec).    *)
(* Entry j of a sequence s is s[j + 1].                                    *)
(***************************************************************************)

\* C6: started from 1 and 1/3 and computed exactly, the formula of p and the
\* formula of q give the same entries, entry j being 1/3^j, for every j up
\* to N.
C6_ExactEquivalence ==
    tp[2] = <<1, 3>> =>
        /\ Len(tp) = Len(tq)
        /\ \A j \in 0..(Len(tp) - 1) :
              /\ tp[j + 1] = <<1, 3^j>>
              /\ tq[j + 1] = <<1, 3^j>>
              /\ xk = 0 => xp[j + 1] = <<1, 3^j>> /\ xq[j + 1] = <<1, 3^j>>

\* C6 witness: N = 4 and both formulas have given [1, 1/3, 1/9, 1/27, 1/81]
C6_Witness ==
    /\ xN = 4
    /\ tp = <<<<1, 1>>, <<1, 3>>, <<1, 9>>, <<1, 27>>, <<1, 81>>>>
    /\ tq = tp

\* C8: with entry k >= 1 of the q sequence off by e # 0, the entries before
\* it exact and the later ones computed exactly by the formula of q, let
\* r[j] = 3^j (xq[j] - 1/3^j).  Then r[j] = 0 for j < k, r[k] = 3^k e, and
\* for every j > k: r[j] - r[j-1] = 4 (r[j-1] - r[j-2]), r[j] # 0, and
\* r[j]/r[j-1] = 4 + 3/(4^(j-k) - 1), which tends to 4.
C8_QErrorFourfold ==
    LET r(j) == RatMul(<<3^j, 1>>, RatSub(xq[j + 1], <<1, 3^j>>))
        over(x, y) == RatMul(x, Rat(y[2], y[1]))
    IN  xk >= 1 =>
          \A j \in 0..(Len(xq) - 1) :
              /\ j < xk => r(j) = <<0, 1>>
              /\ j = xk => r(j) = RatMul(<<3^j, 1>>, xeps)
              /\ j >= xk => r(j)[1] # 0
              /\ j > xk =>
                    /\ RatSub(r(j), r(j - 1)) =
                          RatMul(<<4, 1>>, RatSub(r(j - 1), r(j - 2)))
                    /\ RatSub(over(r(j), r(j - 1)), <<4, 1>>) =
                          Rat(3, 4^(j - xk) - 1)

\* C8 witness: the q sequence has been continued three entries past the
\* one in error, and its last entry is off by more than 4^3 times as much
\* relative to 1/3^j
C8_Witness ==
    /\ xk >= 1 /\ Len(xq) = xk + 4
    /\ LET r(j) == RatMul(<<3^j, 1>>, RatSub(xq[j + 1], tq[j + 1]))
       IN  RatLeq(RatMul(<<64, 1>>, RatAbs(r(xk))), RatAbs(r(xk + 3)))

\* C9: with entry k >= 1 of the p sequence off by e # 0, the entries before
\* it exact and the later ones computed exactly by the formula of p, every
\* entry j >= k is off from 1/3^j by at most |e|, and every entry before k
\* by nothing.
C9_PErrorBounded ==
    LET dev(j) == RatSub(xp[j + 1], <<1, 3^j>>)
    IN  xk >= 1 =>
          \A j \in 0..(Len(xp) - 1) :
              /\ j < xk => dev(j) = <<0, 1>>
              /\ j = xk => dev(j) = xeps
              /\ j > xk => RatLeq(RatAbs(dev(j)), RatAbs(xeps))

\* C9 witness: the p sequence has been continued three entries past the
\* one in error, and its last entry is still off, by less than |e|
C9_Witness ==
    /\ xk >= 1 /\ Len(xp) = xk + 4
    /\ xp[xk + 4] # tp[xk + 4]
    /\ ~RatLeq(RatAbs(xeps), RatAbs(RatSub(xp[xk + 4], tp[xk + 4])))

\* C10 (as stated): x = 1/3 and x = 4/3 each satisfy x^2 = 5/6 x - 1/6 and
\* x^2 = 5/3 x - 4/9: entry 2 of the sequences 1, x, ... continued by the
\* formula of p and by the formula of q is x^2.
C10_SameRoots ==
    (xk = 0 /\ Len(tp) >= 3 /\ tp[2] \in {<<1, 3>>, <<4, 3>>}) =>
        /\ tp[3] = RatMul(tp[2], tp[2])
        /\ tq[3] = RatMul(tq[2], tq[2])

\* C10 (amended): 1/3 is a root of both characteristic equations; the
\* other root of x^2 = 5/6 x - 1/6 is 1/2 and the other root of
\* x^2 = 5/3 x - 4/9 is 4/3, and neither is a root of the other equation.
\* Started from 1, x the formula of p gives x^j for x = 1/3 and x = 1/2,
\* the formula of q for x = 1/3 and x = 4/3.
C10_RootsOfEach ==
    xk = 0 =>
      LET x == tp[2]
      IN  \A j \in 2..(Len(tp) - 1) :
            /\ x \in {<<1, 3>>, <<1, 2>>} => tp[j + 1] = RatPow(x, j)
            /\ x \in {<<1, 3>>, <<4, 3>>} => tq[j + 1] = RatPow(x, j)
            /\ x = <<4, 3>> => tp[j + 1] # RatPow(x, j)
            /\ x = <<1, 2>> => tq[j + 1] # RatPow(x, j)

\* C10 witness: the two formulas have continued 1, 4/3 differently, q with
\* the square 16/9 and p with 17/18
C10_Witness ==
    /\ xk = 0 /\ Len(tp) >= 3 /\ tp[2] = <<4, 3>>
    /\ tq[3] = <<16, 9>>
    /\ tp[3] = <<17, 18>>

\* C18: with entry k >= 1 of the p sequence off by e # 0, the entries
\* before it exact and the later ones computed exactly by the formula of p,
\* let r[j] = 3^j (xp[j] - 1/3^j).  Then for every j > k:
\* r[j] - r[j-1] = 3/2 (r[j-1] - r[j-2]), so r is not constant, and
\* r[j]/r[j-1] = 3/2 + 1/(3 (3/2)^(j-k-1) - 2), which tends to 3/2 and is
\* less than the ratio of the q sequence at the same step.
C18_PErrorThreeHalves ==
    LET r(j) == RatMul(<<3^j, 1>>, RatSub(xp[j + 1], <<1, 3^j>>))
        rq(j) == RatMul(<<3^j, 1>>, RatSub(xq[j + 1], <<1, 3^j>>))
        over(x, y) == RatMul(x, Rat(y[2], y[1]))
    IN  xk >= 1 =>
          \A j \in (xk + 1)..(Len(xp) - 1) :
              /\ RatSub(r(j), r(j - 1)) =
                    RatMul(<<3, 2>>, RatSub(r(j - 1), r(j - 2)))
              /\ r(j) # r(j - 1)
              /\ RatSub(over(r(j), r(j - 1)), <<3, 2>>) =
                    over(<<1, 1>>,
                         RatSub(RatMul(<<3, 1>>, RatPow(<<3, 2>>, j - xk - 1)),
                                <<2, 1>>))
              /\ ~RatLeq(over(rq(j), rq(j - 1)), over(r(j), r(j - 1)))

\* C18 witness: the p sequence has been continued three entries past the
\* one in error, and relative to 1/3^j its last entry is off by more than
\* 3 times as much as the entry in error
C18_Witness ==
    /\ xk >= 1 /\ Len(xp) = xk + 4
    /\ LET r(j) == RatMul(<<3^j, 1>>, RatSub(xp[j + 1], tp[j + 1]))
       IN  RatLeq(RatMul(<<3, 1>>, RatAbs(r(xk))), RatAbs(r(xk + 3)))

(***************************************************************************)
(* Properties of the aside (IntPowSpec).                                   *)
(***************************************************************************)

\* 6289078614652622815, the magnitude of the recorded value of 3**n[-1]
Wrapped40 ==
    BigFromDigits(<<6, 2, 8, 9, 0, 7, 8, 6, 1, 4, 6, 5, 2, 6, 2, 2, 8, 1, 5>>)

\* 12157665459056928801, the recorded value of 3**N
Exact40 ==
    BigFromDigits(<<1, 2, 1, 5, 7, 6, 6, 5, 4, 5, 9, 0, 5, 6, 9, 2, 8, 8, 0,
                    1>>)

\* C11: with 64-bit integers every element 3**n for n in 0..39 is the exact
\* power 3^n and positive, and the element for n = 40 is the negative
\* -6289078614652622815, which is 3^40 - 2^64; 3**n[-1] for N = 40 is that
\* same value, while the unbounded 3**N is 12157665459056928801 = 3^40.  Of
\* the elements 0..40 of 1/3**n exactly the one at index 40 is negative.
C11_WrapAtForty ==
    ipow.w = 64 =>
        /\ \A k \in 0..(Len(ipow.pw) - 1) :
              /\ k <= 39 =>
                    ipow.pw[k + 1] = [neg |-> FALSE, mag |-> BigPow(3, k)]
              /\ k = 40 =>
                    /\ ipow.pw[k + 1] = [neg |-> TRUE, mag |-> Wrapped40]
                    /\ BigAdd(Wrapped40, Exact40) = BigShl(<<1>>, 64)
        /\ \A k \in 0..(Len(ipow.recip) - 1) :
              k <= 40 =>
                  /\ ipow.recip[k + 1].m # << >>
                  /\ ipow.recip[k + 1].s = 1 <=> k = 40
        /\ (ipow.N = 40 /\ ipow.last # << >>) =>
              ipow.last = [neg |-> TRUE, mag |-> Wrapped40]
        /\ (ipow.N = 40 /\ ipow.py # << >>) =>
              ipow.py = Exact40 /\ ipow.py = BigPow(3, 40)

\* C11 witness: the three cells have run for N = 40 with 64-bit integers
C11_Witness ==
    /\ ipow.w = 64 /\ ipow.N = 40 /\ ipow.at = "done"
    /\ Len(ipow.pw) = 41 /\ Len(ipow.recip) = 41
    /\ ipow.pw[41].neg /\ ipow.recip[41].s = 1
    /\ ipow.py = Exact40

\* 3^k does not fit a signed integer of w bits
Overflowed(k, w) == BigCmp(BigPow(3, k), BigShl(<<1>>, w - 1)) >= 0

C13_DivisorNeverZero ==
    /\ refrun.at \in {"error", "done"} =>
          /\ ~IsZero(refrun.ex)
          /\ refrun.ex.val.s = 0
    /\ refrun.at # "idle" =>
          /\ "divide by zero encountered in divide" \notin refrun.warn
          /\ refrun.exc = "none"

=============================================================================
